---------------------------- MODULE Spec2Model ----------------------------
(***************************************************************************)
(* The 1-D thermal-hydraulic solve (Flow), the parametric sweep            *)
(* (ParametricSweep) and the sweep driver script of sCO2_reactor,          *)
(* src/optimization/ht_functions.py and src/optimization/                  *)
(* thermal_mass_opt.py.                                                    *)
(*                                                                         *)
(* Python floats are modelled as decimal floating-point numbers with a     *)
(* four-digit mantissa: the record [m |-> mantissa, e |-> exponent]        *)
(* stands for m * 10^e, with 1000 <= |m| <= 9999 or m = 0.  Every          *)
(* arithmetic operator rounds its result to that precision, as IEEE        *)
(* arithmetic rounds to 53 bits.                                           *)
(*                                                                         *)
(* Python evaluates an argument once, before the call, and a local         *)
(* variable once, at its assignment.  The operators below do the same:     *)
(* The({body : x \in {value}}) is body with x bound to the value.          *)
(***************************************************************************)
EXTENDS Integers, Sequences, FiniteSets, TLC

(***************************************************************************)
(* Floating-point arithmetic                                               *)
(***************************************************************************)
\* the element of a one-element set
The(S) == CHOOSE r \in S : TRUE

Abs(x) == IF x < 0 THEN -x ELSE x

Sgn(x) == IF x < 0 THEN -1 ELSE IF x = 0 THEN 0 ELSE 1

RECURSIVE Pow10(_)
Pow10(n) == IF n <= 0 THEN 1 ELSE 10 * Pow10(n - 1)

RECURSIVE Pow2(_)
Pow2(n) == IF n <= 0 THEN 1 ELSE 2 * Pow2(n - 1)

\* m * 10^e rounded to a four-digit mantissa (round half away from zero)
RECURSIVE Norm(_, _)
Norm(m0, e0) ==
    The({IF m = 0 THEN [m |-> 0, e |-> 0]
         ELSE IF Abs(m) >= 10000
              THEN Norm(Sgn(m) * ((Abs(m) + 5) \div 10), e + 1)
         ELSE IF Abs(m) < 1000 THEN Norm(m * 10, e - 1)
         ELSE [m |-> m, e |-> e]
         : m \in {m0}, e \in {e0}})

FZero == Norm(0, 0)

FOne == Norm(1, 0)

FromInt(n) == Norm(n, 0)

FNeg(a0) == The({[m |-> -a.m, e |-> a.e] : a \in {a0}})

FAbs(a0) == The({[m |-> Abs(a.m), e |-> a.e] : a \in {a0}})

FMul(a0, b0) ==
    The({Norm(a.m * b.m, a.e + b.e) : a \in {a0}, b \in {b0}})

\* a / b, b nonzero
FDiv(a0, b0) ==
    The({Norm(Sgn(a.m) * Sgn(b.m) * ((Abs(a.m) * 100000) \div Abs(b.m)),
              a.e - b.e - 5)
         : a \in {a0}, b \in {b0}})

FAdd(a0, b0) ==
    The({IF a.m = 0 THEN b
         ELSE IF b.m = 0 THEN a
         ELSE IF a.e >= b.e
              THEN IF a.e - b.e >= 6 THEN a
                   ELSE Norm(a.m * Pow10(a.e - b.e) + b.m, b.e)
         ELSE IF b.e - a.e >= 6 THEN b
              ELSE Norm(b.m * Pow10(b.e - a.e) + a.m, a.e)
         : a \in {a0}, b \in {b0}})

FSub(a, b) == FAdd(a, FNeg(b))

FLt(a, b) == FSub(a, b).m < 0

FGt(a, b) == FLt(b, a)

FLe(a, b) == ~FLt(b, a)

FGe(a, b) == ~FLt(a, b)

\* largest s in lo..hi with s * s <= n
RECURSIVE ISqrtIn(_, _, _)
ISqrtIn(n0, lo0, hi0) ==
    The({IF lo >= hi THEN lo
         ELSE The({IF mid * mid <= n THEN ISqrtIn(n, mid, hi)
                   ELSE ISqrtIn(n, lo, mid - 1)
                   : mid \in {(lo + hi + 1) \div 2}})
         : n \in {n0}, lo \in {lo0}, hi \in {hi0}})

\* math.sqrt(a), a >= 0
FSqrt(a0) ==
    The({IF a.m = 0 THEN FZero
         ELSE IF (a.e % 2) = 1
              THEN Norm(ISqrtIn(a.m * 100000, 0, 31622), (a.e - 5) \div 2)
              ELSE Norm(ISqrtIn(a.m * 10000, 0, 31622), (a.e - 4) \div 2)
         : a \in {a0}})

\* z + z^3/3 + z^5/5 + z^7/7 + z^9/9 at scale 10^5, z2 = z * z
LnTerms(z, z2) ==
    The({The({The({The({z + t3 \div 3 + t5 \div 5 + t7 \div 7 + t9 \div 9
                        : t9 \in {(t7 * z2) \div 100000}})
                   : t7 \in {(t5 * z2) \div 100000}})
              : t5 \in {(t3 * z2) \div 100000}})
         : t3 \in {(z * z2) \div 100000}})

\* ln(w) * 10^5 for w = num / den in [1, 2), by the atanh series
LnSeries(num0, den0) ==
    The({2 * LnTerms(z, (z * z) \div 100000)
         : z \in {((num0 - den0) * 100000) \div (num0 + den0)}})

\* math.log(a) * 10^5 as an integer, a > 0
Ln5(a0) ==
    The({The({LnSeries(a.m, 1000 * Pow2(k)) + k * 69315
                  + (a.e + 3) * 230259
              : k \in {IF a.m >= 8000 THEN 3 ELSE IF a.m >= 4000 THEN 2
                       ELSE IF a.m >= 2000 THEN 1 ELSE 0}})
         : a \in {a0}})

\* math.log(a), a > 0
FLn(a) == Norm(Ln5(a), -5)

\* 1 + s + s^2/2! + ... + s^7/7! at scale 10^4
ExpTerms(s) ==
    The({The({The({The({The({The({
            10000 + s + p2 + p3 + p4 + p5 + p6 + p7
                                  : p7 \in {(p6 * s) \div 70000}})
                             : p6 \in {(p5 * s) \div 60000}})
                        : p5 \in {(p4 * s) \div 50000}})
                   : p4 \in {(p3 * s) \div 40000}})
              : p3 \in {(p2 * s) \div 30000}})
         : p2 \in {(s * s) \div 20000}})

\* math.exp(t / 10^5) for an integer t
Exp5(t0) ==
    The({The({The({Norm(ExpTerms((r - j * 69315) \div 10) * Pow2(j), k - 4)
                   : j \in {r \div 69315}})
              : r \in {t - k * 230259}})
         : t \in {t0}, k \in {t0 \div 230259}})

\* a ** (y4 / 10^4) for a > 0: exp(y * ln a)
FPow(a, y4) ==
    The({Exp5(Sgn(l) * Sgn(y4)
                * ((Abs(y4) * (Abs(l) \div 1000)) \div 10
                   + (Abs(y4) * (Abs(l) % 1000)) \div 10000))
         : l \in {Ln5(a)}})

\* math.ceil(a) as an integer, |a| < 10^9
FCeil(a0) ==
    The({IF a.e >= 0 THEN a.m * Pow10(a.e)
         ELSE IF a.e <= -9 THEN (IF a.m > 0 THEN 1 ELSE 0)
         ELSE -((-a.m) \div Pow10(-a.e))
         : a \in {a0}})

\* x ** (-2)
FInvSq(a0) == The({FDiv(FOne, FMul(a, a)) : a \in {a0}})

(***************************************************************************)
(* Pipe-flow correlations, ht_functions.py lines 11-88                     *)
(***************************************************************************)
\* Li, Seem and Li smooth-tube friction factor (lines 18-20), l = ln(Re)
turbulent_f_smooth(Re0) ==
    The({FMul(FAdd(FAdd(FDiv(Norm(-1570232, -9), l),
                        FDiv(Norm(394203137, -9), FMul(l, l))),
                   FDiv(Norm(253415331, -8), FMul(FMul(l, l), l))),
              FromInt(4))
         : l \in {FLn(Re0)}})

\* Offor and Alabi rough-tube friction factor (lines 25-28)
turbulent_f_rough(Re0, relrough0) ==
    The({FInvSq(FMul(FromInt(-2),
                     FDiv(FLn(FSub(FDiv(relrough, Norm(371, -2)),
                                   FMul(FDiv(Norm(1975, -3), Re),
                                        FLn(FAdd(FPow(FDiv(relrough,
                                                           Norm(393, -2)),
                                                      10920),
                                                 FDiv(Norm(7627, -3),
                                                      FAdd(Re,
                                                           Norm(3959, -1)))))))),
                          FLn(FromInt(10)))))
         : Re \in {Re0}, relrough \in {relrough0}})

\* fully developed friction factor (lines 18-28)
turbulent_f_fd(Re0, relrough0) ==
    The({IF FGt(relrough, Norm(1, -5)) THEN turbulent_f_rough(Re, relrough)
         ELSE turbulent_f_smooth(Re)
         : Re \in {Re0}, relrough \in {relrough0}})

\* Gnielinski (lines 31-32), f8 = f_fd / 8
Nusselt_Gnielinski(Re, Pr, f8) ==
    FDiv(FMul(FMul(f8, FSub(Re, FromInt(1000))), Pr),
         FAdd(FOne, FMul(FMul(Norm(127, -1), FSqrt(f8)),
                         FSub(FPow(Pr, 6667), FOne))))

\* Notter and Sleicher, for low Prandtl numbers (line 35)
Nusselt_lp(Re, Pr) ==
    FAdd(Norm(48, -1),
         FMul(FMul(Norm(156, -4), FPow(Re, 8500)), FPow(Pr, 9300)))

\* Gnielinski, with the Notter-Sleicher low-Prandtl blend (lines 31-39)
turbulent_Nusselt(Re0, Pr0, f_fd0) ==
    The({IF FLt(Pr, Norm(5, -1))
         THEN IF FLt(Pr, Norm(1, -1)) THEN Nusselt_lp(Re, Pr)
              ELSE The({FAdd(lp, FDiv(FMul(FSub(Pr, Norm(1, -1)),
                                           FSub(gn, lp)),
                                      Norm(4, -1)))
                        : gn \in {Nusselt_Gnielinski(Re, Pr, f8)},
                          lp \in {Nusselt_lp(Re, Pr)}})
         ELSE Nusselt_Gnielinski(Re, Pr, f8)
         : Re \in {Re0}, Pr \in {Pr0}, f8 \in {FDiv(f_fd0, FromInt(8))}})

\* developing-flow factor 1 + (1/LD)**0.7 (line 42)
developing_factor(LD) == FAdd(FOne, FPow(FDiv(FOne, LD), 7000))

\* variant of pipeflow_turbulent that keeps the product of line 43 as the
\* Nusselt number it returns
pipeflow_turbulent_Nusselt_corrected(Re0, Pr0, LD0, relrough0) ==
    The({[Nusselt_L |-> FMul(turbulent_Nusselt(Re0, Pr0, f_fd),
                             developing_factor(LD0)),
          f         |-> FMul(f_fd, developing_factor(LD0))]
         : f_fd \in {turbulent_f_fd(Re0, relrough0)}})

\* line 42 is the only assignment of the correction; line 43 is an
\* expression statement whose value is dropped
pipeflow_turbulent(Re0, Pr0, LD0, relrough0) ==
    The({[Nusselt_L |-> turbulent_Nusselt(Re0, Pr0, f_fd),
          f         |-> FMul(f_fd, developing_factor(LD0))]
         : f_fd \in {turbulent_f_fd(Re0, relrough0)}})

\* apparent friction factor times Re / 4 (lines 53-55), x = LD / Re
laminar_fR(x) ==
    The({FAdd(sx,
              FDiv(FSub(FAdd(FDiv(Norm(125, -2), FMul(FromInt(4), x)),
                             FromInt(16)),
                        sx),
                   FAdd(FOne, FMul(Norm(21, -5), FInvSq(x)))))
         : sx \in {FDiv(Norm(344, -2), FSqrt(x))}})

pipeflow_laminar(Re0, Pr0, LD0, relrough0) ==
    The({[Nusselt_T |->
             FAdd(Norm(366, -2),
                  FDiv(FMul(FAdd(Norm(49, -3), FDiv(Norm(2, -2), Pr)),
                            FPow(Gz, 11200)),
                       FAdd(FOne, FMul(Norm(65, -3), FPow(Gz, 7000))))),
          Nusselt_H |->
             FAdd(Norm(436, -2),
                  FDiv(FMul(FAdd(Norm(1156, -4),
                                 FDiv(Norm(8569, -5), FPow(Pr, 4000))),
                            Gz),
                       FAdd(FOne, FMul(Norm(1158, -4), FPow(Gz, 6000))))),
          f |-> FDiv(FMul(FromInt(4), laminar_fR(x)), Re)]
         : Re \in {Re0}, Pr \in {Pr0},
           Gz \in {FDiv(FMul(Re0, Pr0), LD0)}, x \in {FDiv(LD0, Re0)}})

Re_turbulent == 3000

Re_laminar == 2300

\* variant of mix that divides by the upper threshold instead of the width
\* of the transition range
mix_over_Re_turbulent(Re0, lam0, turb0) ==
    The({FAdd(lam,
              FMul(FDiv(FSub(Re, FromInt(Re_laminar)), FromInt(Re_turbulent)),
                   FSub(turb, lam)))
         : Re \in {Re0}, lam \in {lam0}, turb \in {turb0}})

\* variant of mix that starts from the turbulent end
mix_from_turbulent(Re0, lam0, turb0) ==
    The({FAdd(turb,
              FMul(FDiv(FSub(Re, FromInt(Re_laminar)),
                        FromInt(Re_turbulent - Re_laminar)),
                   FSub(lam, turb)))
         : Re \in {Re0}, lam \in {lam0}, turb \in {turb0}})

\* lam + (Re - 2300)/(3000 - 2300) * (turb - lam)  (lines 83-86)
mix(Re0, lam0, turb0) ==
    The({FAdd(lam,
              FMul(FDiv(FSub(Re, FromInt(Re_laminar)),
                        FromInt(Re_turbulent - Re_laminar)),
                   FSub(turb, lam)))
         : Re \in {Re0}, lam \in {lam0}, turb \in {turb0}})

pipeflow_nd(Re0, Pr0, LD0, relrough0) ==
    The({IF FGt(Re, FromInt(Re_turbulent))
         THEN The({[Nusselt_T |-> t.Nusselt_L, Nusselt_H |-> t.Nusselt_L,
                    f |-> t.f]
                   : t \in {pipeflow_turbulent(Re, Pr, LD, relrough)}})
         ELSE IF FLt(Re, FromInt(Re_laminar))
         THEN pipeflow_laminar(Re, Pr, LD, relrough)
         ELSE The({[Nusselt_T |-> mix(Re, l.Nusselt_T, t.Nusselt_L),
                    Nusselt_H |-> mix(Re, l.Nusselt_H, t.Nusselt_L),
                    f         |-> mix(Re, l.f, t.f)]
                   : t \in {pipeflow_turbulent(FromInt(Re_turbulent), Pr, LD,
                                               relrough)},
                     l \in {pipeflow_laminar(FromInt(Re_laminar), Pr, LD,
                                             relrough)}})
         : Re \in {Re0}, Pr \in {Pr0}, LD \in {LD0}, relrough \in {relrough0}})

(***************************************************************************)
(* class Flow, ht_functions.py lines 143-391.  A Flow object is a record   *)
(* of its attributes; keys is the set of names in the instance's __dict__  *)
(* (an attribute never assigned on the instance is read from the class).   *)
(***************************************************************************)
Pi == Norm(314159, -5)

\* critical-radius fit coefficients (lines 384-388)
coeffs(fuel) ==
    CASE fuel = "UO2-CO2" -> [a |-> Norm(16271, -5), b4 |-> -8515]
      [] fuel = "UO2-H2O" -> [a |-> Norm(1706, -4),  b4 |-> -6136]
      [] fuel = "UW-CO2"  -> [a |-> Norm(15385, -5), b4 |-> -8309]
      [] fuel = "UW-H2O"  -> [a |-> Norm(16270, -5), b4 |-> -6487]

\* fuel.split('-')[0] (line 202)
fuel_name(fuel) ==
    IF fuel \in {"UO2-CO2", "UO2-H2O"} THEN "UO2" ELSE "UW"

\* physical_properties.fuel_props: the material table
fuel_props(name) ==
    IF name = "UO2"
    THEN [T_center |-> Norm(18475, -1), k_fuel |-> Norm(36, -1),
          rho_fuel |-> Norm(10970, 0)]
    ELSE [T_center |-> Norm(18475, -1), k_fuel |-> Norm(51, 0),
          rho_fuel |-> Norm(14000, 0)]

\* the class-level attributes, lines 164-188
FlowClass ==
    [r_channel |-> FZero, c |-> FZero, pitch |-> FZero, L |-> FZero,
     Vol_fuel |-> FZero, mass |-> FZero, A_fuel |-> FZero,
     A_flow |-> FZero, fuel_frac |-> Norm(75, -2), core_r |-> FOne,
     D_e |-> FZero, v |-> FZero, dp |-> FZero, h_bar |-> FZero,
     f |-> FZero, q_bar |-> FZero, q_per_channel |-> FZero,
     iterations |-> FZero]

\* the metrics save_iteration copies (lines 149-157)
savedata ==
    {"mass", "N_channels", "dp", "h_bar", "q_per_channel", "q_bar", "v",
     "AR"}

\* lines 216-234
set_geom(s0) ==
    The({The({The({
        [s EXCEPT
           !.A_flow = A_flow,
           !.A_fuel = A_fuel,
           !.L = L,
           !.LD = FDiv(L, FMul(s.r_channel, FromInt(2))),
           !.vol_fuel = FMul(A_fuel, L),
           !.vol_cool = FMul(A_flow, L),
           !.N_channels = N_ch,
           !.radius_cond = FDiv(FSqrt(FDiv(A_fuel, N_ch)), FromInt(2)),
           !.XS_A_cond =
               FMul(FMul(FMul(FMul(Pi, s.r_channel), L), FromInt(2)), N_ch),
           !.relrough = FDiv(s.rough, FMul(s.r_channel, FromInt(2))),
           !.keys = @ \cup {"A_flow", "A_fuel", "L", "LD", "vol_fuel",
                            "vol_cool", "N_channels", "radius_cond",
                            "XS_A_cond", "relrough"}]
        : N_ch \in {FDiv(A_flow, FMul(FMul(s.r_channel, s.r_channel), Pi))}})
        : A_flow \in {FMul(FMul(FMul(s.core_r, s.core_r), Pi),
                           FSub(FOne, s.fuel_frac))},
          A_fuel \in {FMul(FMul(FMul(s.core_r, s.core_r), Pi), s.fuel_frac)},
          L \in {FMul(s.AR, s.core_r)}})
        : s \in {s0}})

\* lines 249-260
characterize_flow(s0) ==
    The({The({The({The({
        [s EXCEPT
           !.D_e = D_e,
           !.v = v,
           !.Re = Re,
           !.Nu = nd_.Nusselt_T,
           !.f = nd_.f,
           !.h_bar = FDiv(FMul(nd_.Nusselt_T, s.fps.k_cool), D_e),
           !.keys = @ \cup {"D_e", "v", "Re", "Nu", "f", "h_bar"}]
        : nd_ \in {pipeflow_nd(Re, s.fps.Pr, s.LD, s.relrough)}})
        : Re \in {FDiv(FMul(FMul(s.fps.rho, v), D_e), s.fps.mu)}})
        : D_e \in {FMul(FromInt(2), s.r_channel)},
          v \in {FDiv(FDiv(s.fps.m_dot, s.A_flow), s.fps.rho)}})
        : s \in {s0}})

\* lines 279-292
get_q_per_channel(s0) ==
    The({The({
        [s EXCEPT
           !.R_cond = R_cond,
           !.R_conv = R_conv,
           !.gen_Q = FDiv(FMul(FDiv(s.dT, FAdd(R_cond, R_conv)), FromInt(2)),
                          Pi),
           !.keys = @ \cup {"R_cond", "R_conv", "gen_Q"}]
        : R_cond \in {FDiv(s.radius_cond,
                           FMul(s.fuelprops.k_fuel, s.XS_A_cond))},
          R_conv \in {FDiv(FOne,
                           FMul(FMul(FMul(FMul(FMul(s.h_bar, s.r_channel),
                                               FromInt(2)), Pi), s.L),
                                s.N_channels))}})
        : s \in {s0}})

\* line 304
calc_dp(s0) ==
    The({[s EXCEPT
            !.dp = FDiv(FMul(FMul(FMul(FMul(s.f, s.L), s.fps.rho), s.v), s.v),
                        FMul(FromInt(2), s.D_e)),
            !.keys = @ \cup {"dp"}]
         : s \in {s0}})

\* lines 336-343
get_dp_constrained_Nchannels(s0) ==
    The({The({FCeil(FDiv(s.fps.m_dot, FMul(FMul(s.A_flow, s.fps.rho), v_req)))
              : v_req \in {FSqrt(FDiv(FMul(FMul(FromInt(2), s.D_e),
                                           s.fps.dp_limit),
                                      FMul(FMul(s.f, s.L), s.fps.rho)))}})
         : s \in {s0}})

\* lines 389-391
constrain_radius(s0) ==
    The({[s EXCEPT
            !.core_r = FMul(coeffs(s.fuel).a,
                            FPow(s.fuel_frac, coeffs(s.fuel).b4)),
            !.keys = @ \cup {"core_r"}]
         : s \in {s0}})

\* variant of compute_Q_from_guess that runs set_geom before
\* constrain_radius
compute_Q_from_guess_geom_first(s0, inp_guess0) ==
    get_q_per_channel(characterize_flow(constrain_radius(set_geom(
        [s0 EXCEPT !.fuel_frac = inp_guess0,
                   !.keys = @ \cup {"fuel_frac"}]))))

\* the Flow after one trial of the objective (lines 358-362)
compute_Q_from_guess(s0, inp_guess0) ==
    get_q_per_channel(characterize_flow(set_geom(constrain_radius(
        [s0 EXCEPT !.fuel_frac = inp_guess0,
                   !.keys = @ \cup {"fuel_frac"}]))))

\* the value compute_Q_from_guess returns (line 364)
squared_error(s0) ==
    The({FMul(d, d) : d \in {FSub(s0.gen_Q, s0.Q_therm)}})

\* lines 372-378
calc_reactor_mass(s0) ==
    The({The({
        [s EXCEPT
           !.mass = FAdd(FAdd(FMul(s.vol_fuel, s.fuelprops.rho_fuel),
                              FMul(s.vol_cool, s.fps.rho)),
                         FMul(FMul(FSub(FMul(r105, r105),
                                        FMul(s.core_r, s.core_r)), s.L),
                              FromInt(1700))),
           !.keys = @ \cup {"mass"}]
        : r105 \in {FMul(s.core_r, Norm(105, -2))}})
        : s \in {s0}})

\* variant of Flow_dict_after in which an assignment through self rebinds
\* the attribute of the class
Flow_dict_shared(klass, s) ==
    [n \in DOMAIN klass |-> IF n \in s.keys THEN s[n] ELSE klass[n]]

\* Flow.__dict__ after methods that left the instance as s: every
\* assignment of the class body's methods is of the form self.<name> = ...
\* (lines 201-207, 216-234, 249-260, 279-292, 304, 322, 358, 372-378,
\* 389-391), which binds <name> in the instance's own __dict__ and leaves
\* the attribute of the class as it was
Flow_dict_after(klass, s) == klass

\* the attributes __init__ assigns before set_geom (lines 201-207), over
\* the defaults found on the class klass
InitFlow(klass, cool_r, c, AR, power, fuel, flowprops, fuelprops) ==
    [Q_therm |-> power, fuel |-> fuel, fuelprops |-> fuelprops,
     AR |-> AR, c |-> c, r_channel |-> cool_r,
     rough |-> Norm(15, -7),
     fuel_frac |-> klass.fuel_frac,
     core_r |-> klass.core_r,
     A_flow |-> klass.A_flow, A_fuel |-> klass.A_fuel,
     L |-> klass.L, LD |-> FZero, vol_fuel |-> FZero,
     vol_cool |-> FZero, N_channels |-> FZero,
     radius_cond |-> FZero, XS_A_cond |-> FZero,
     relrough |-> FZero, D_e |-> klass.D_e,
     v |-> klass.v, Re |-> FZero, Nu |-> FZero,
     f |-> klass.f, h_bar |-> klass.h_bar,
     R_cond |-> FZero, R_conv |-> FZero, gen_Q |-> FZero,
     dp |-> klass.dp, mass |-> klass.mass,
     fps |-> flowprops,
     dT |-> FSub(fuelprops.T_center, flowprops.T),
     keys |-> {"Q_therm", "fuel", "fuelprops", "AR", "c",
               "r_channel", "rough"}]

\* Flow.__init__ (lines 190-210)
NewFlow(klass, cool_r, c, AR, power, fuel, flowprops) ==
    The({[s EXCEPT !.keys = @ \cup {"fps", "dT"}]
         : s \in {set_geom(InitFlow(klass, cool_r, c, AR, power, fuel,
                                    flowprops,
                                    fuel_props(fuel_name(fuel))))}})

(***************************************************************************)
(* class ParametricSweep, ht_functions.py lines 394-473                    *)
(***************************************************************************)
\* one record of the structured array (line 411-413), as np.zeros makes it
ZeroRow ==
    [mass |-> FZero, N_channels |-> FZero, dp |-> FZero, h_bar |-> FZero,
     q_per_channel |-> FZero, q_bar |-> FZero, v |-> FZero, AR |-> FZero,
     r |-> FZero, pd |-> FZero]

\* list(Flow.savedata.keys()): the dict's insertion order
savedata_keys ==
    <<"mass", "N_channels", "dp", "h_bar", "q_per_channel", "q_bar", "v",
      "AR">>

\* 2D -> 1D index (line 441)
save_index(i, j, N) == i + j * N

\* np.arange(lo, hi, (hi - lo) / N)[k]  (lines 420-424)
arange_at(lo, hi, N, k) ==
    FAdd(lo, FMul(FromInt(k), FDiv(FSub(hi, lo), FromInt(N))))

\* iteration.__dict__[key] succeeds only for an instance attribute
\* (line 446); the number of leading keys of savedata that do
RECURSIVE keys_saved(_, _)
keys_saved(s, n) ==
    IF n >= Len(savedata_keys) THEN n
    ELSE IF savedata_keys[n + 1] \in s.keys THEN keys_saved(s, n + 1)
    ELSE n

\* getattr on a Flow: the instance's __dict__, then the class
has_attr(s, name) == name \in s.keys \/ name \in DOMAIN FlowClass

\* the row after save_iteration's writes, up to the first one that raises
\* (lines 443-446)
saved_row(row, s) ==
    IF ~has_attr(s, "pd_ratio") THEN [row EXCEPT !.r = s.r_channel]
    ELSE The({[k \in DOMAIN row |->
                 IF \E q \in 1..n : savedata_keys[q] = k THEN s[k]
                 ELSE IF k = "r" THEN s.r_channel
                 ELSE IF k = "pd" THEN s.pd_ratio
                 ELSE row[k]]
              : n \in {keys_saved(s, 0)}})

\* the exception save_iteration ends with, "none" when it returns
save_raises(s) ==
    IF ~has_attr(s, "pd_ratio") THEN "AttributeError"
    ELSE IF keys_saved(s, 0) < Len(savedata_keys) THEN "KeyError"
    ELSE "none"

\* variant of list_index that returns the last position of v
list_index_last(masses, v, k) ==
    CHOOSE i \in DOMAIN masses :
        /\ masses[i] = v
        /\ \A q \in DOMAIN masses : masses[q] = v => q <= i

\* first position of v in the list (list.index), positions from 0
RECURSIVE list_index(_, _, _)
list_index(masses, v, k) ==
    IF masses[k] = v THEN k ELSE list_index(masses, v, k + 1)

\* min() over the list: keeps the first of equal items
RECURSIVE list_min(_, _, _, _)
list_min(masses, n, k0, best0) ==
    The({IF k >= n THEN best
         ELSE list_min(masses, n, k + 1,
                       IF FLt(masses[k], best) THEN masses[k] ELSE best)
         : k \in {k0}, best \in {best0}})

\* self.data['mass'] as a list, positions from 0
mass_column(data, N) == [k \in 0..(N * N - 1) |-> data[k].mass]

\* get_min_mass (lines 448-459): the index it stores and returns
get_min_mass(data, N) ==
    The({list_index(masses, list_min(masses, N * N, 1, masses[0]), 0)
         : masses \in {mass_column(data, N)}})

\* options={'xatol': 1e-3} (line 140)
xatol == Norm(1, -3)

(***************************************************************************)
(* State                                                                   *)
(***************************************************************************)
VARIABLES
    pc,        \* where the caller of the library stands
    flow,      \* the Flow object being solved
    res,       \* minimize_scalar's bookkeeping: evaluations, best point
    sweep,     \* the ParametricSweep object and its loop indices
    exc,       \* the exception that ended the call, "none" if none
    defaults,  \* the FlowProperties() made once as __init__'s default
    nd,        \* one call of pipeflow_nd: arguments and returned values
    main,      \* the run of thermal_mass_opt.py as a script
    cls,       \* the attributes of the class Flow itself (Flow.__dict__)
    made       \* how many Flow objects have been constructed

vars == <<pc, flow, res, sweep, exc, defaults, nd, main, cls, made>>

(***************************************************************************)
(* Bounds and inputs                                                       *)
(***************************************************************************)
\* objective evaluations per solve (stands for the minimizer's maxiter)
MaxTrials == 2

\* largest sweep resolution
MaxN == 2

\* largest "steps" argument of the script
MaxSteps == 2

\* Flow objects a caller constructs and solves one after the other
MaxFlows == 2

\* FlowProperties objects: T, m_dot, rho, mu, Pr, k_cool, dp_limit are
\* the attributes Flow reads
FlowPropsSet ==
    {[T |-> FromInt(900), m_dot |-> Norm(75, -2), rho |-> FromInt(90),
      mu |-> Norm(4, -5), Pr |-> Norm(75, -2), k_cool |-> Norm(6, -2),
      dp_limit |-> d] : d \in {FromInt(2), Norm(48, 4)}}

RadiusSet == {Norm(5, -3), Norm(1, -2)}

PowerSet == {Norm(2, 5), Norm(1, 12)}

FuelSet == {"UO2-CO2", "UW-H2O"}

\* trial values of the minimizer: strictly inside its bounds (0.01, 1)
TrialGrid == {Norm(2, -2), Norm(5, -1), Norm(9, -1)}

NoFlow == [keys |-> {}]

NoRes == [nfev |-> 0, x |-> FZero, fun |-> FZero]

NoSweep ==
    [N |-> 0, i |-> 0, j |-> 0, data |-> <<>>, writes |-> <<>>,
     R_array |-> <<>>, PD_array |-> <<>>, c |-> FZero, z |-> FZero,
     props |-> "None", min_idx |-> -1, min_mass |-> FZero]

NoCall ==
    [Re |-> 0, Pr |-> FZero, LD |-> FZero, relrough |-> FZero,
     called |-> FALSE, out |-> [Nusselt_T |-> FZero, Nusselt_H |-> FZero,
                                f |-> FZero],
     turb_called |-> FALSE, turb |-> [Nusselt_L |-> FZero, f |-> FZero]]

NoMain ==
    [pc |-> "none", flow_calc |-> FALSE, d_lower |-> FZero,
     d_upper |-> FZero, pd_lower |-> FZero, pd_upper |-> FZero,
     steps |-> 0, printed |-> <<>>, exit_status |-> -1,
     sweep_called |-> FALSE, flows |-> 0, masses |-> 0, exc |-> "none"]

(***************************************************************************)
(* The solve of one Flow: Flow(...) then oned_flow_modeling(flow)          *)
(***************************************************************************)
\* a caller constructs a Flow (lines 190-210): the first one, or the next
\* one once the Flow before it has been through oned_flow_modeling
Flow_init ==
    /\ pc \in {"idle", "modeled"}
    /\ sweep.N = 0
    /\ made < MaxFlows
    /\ \E cool_r \in RadiusSet, power \in PowerSet, fuel \in FuelSet,
          fp \in FlowPropsSet :
          flow' = NewFlow(cls, cool_r, Norm(31, -5), FOne, power, fuel, fp)
    /\ cls' = Flow_dict_after(cls, flow')
    /\ res' = NoRes
    /\ made' = made + 1
    /\ pc' = "constructed"
    /\ UNCHANGED <<sweep, exc, defaults, nd, main>>

\* minimize_scalar evaluates _calc_n_channels_error at one more trial
\* point (lines 108-122, 139-140, 345-364)
objective_call ==
    /\ pc \in {"constructed", "minimizing"}
    /\ res.nfev < MaxTrials
    /\ \E x \in TrialGrid :
          \E s \in {compute_Q_from_guess(flow, x)} :
          LET e == squared_error(s)
              better == res.nfev = 0 \/ FLe(e, res.fun)
          IN  /\ flow' = s
              /\ res' = [nfev |-> res.nfev + 1,
                         x    |-> IF better THEN x ELSE res.x,
                         fun  |-> IF better THEN e ELSE res.fun]
    /\ cls' = Flow_dict_after(cls, flow')
    /\ pc' = "minimizing"
    /\ UNCHANGED <<sweep, exc, defaults, nd, main, made>>

\* minimize_scalar returns; find_n_channels drops the result and returns
\* (lines 139-140): no test of res.success, res.fun or gen_Q
find_n_channels_return ==
    /\ pc = "minimizing"
    /\ pc' = "adjust_dp"
    /\ UNCHANGED <<flow, res, sweep, exc, defaults, nd, main, cls, made>>

\* adjust_dp, line 319
adjust_dp_enter ==
    /\ pc = "adjust_dp"
    /\ flow' = calc_dp(flow)
    /\ cls' = Flow_dict_after(cls, flow')
    /\ pc' = "adjust_test"
    /\ UNCHANGED <<res, sweep, exc, defaults, nd, main, made>>

\* variant of the loop condition that tolerates ten times the limit
dp_exceeds_tenfold(s) == FGt(s.dp, FMul(FromInt(10), s.fps.dp_limit))

\* the loop condition, line 320
dp_exceeds(s) == FGt(s.dp, s.fps.dp_limit)

adjust_dp_test ==
    /\ pc = "adjust_test"
    /\ pc' = IF dp_exceeds(flow) THEN "adjust_body" ELSE "adjust_done"
    /\ UNCHANGED <<flow, res, sweep, exc, defaults, nd, main, cls, made>>

\* the loop body, lines 322-324
adjust_dp_pass(s0) ==
    The({calc_dp(characterize_flow(
             [s EXCEPT !.N_channels =
                           FromInt(get_dp_constrained_Nchannels(s)),
                       !.keys = @ \cup {"N_channels"}]))
         : s \in {s0}})

adjust_dp_body ==
    /\ pc = "adjust_body"
    /\ flow' = adjust_dp_pass(flow)
    /\ cls' = Flow_dict_after(cls, flow')
    /\ pc' = "adjust_test"
    /\ UNCHANGED <<res, sweep, exc, defaults, nd, main, made>>

\* oned_flow_modeling, line 105
mass_step ==
    /\ pc = "adjust_done"
    /\ flow' = calc_reactor_mass(flow)
    /\ cls' = Flow_dict_after(cls, flow')
    /\ pc' = "modeled"
    /\ UNCHANGED <<res, sweep, exc, defaults, nd, main, made>>

(***************************************************************************)
(* ParametricSweep(N).sweep_geometric_configs(radii, pds, z, c, props)     *)
(***************************************************************************)
\* __init__ and lines 420-427: the table of zeros and the two axes
sweep_start ==
    /\ pc = "idle"
    /\ \E N \in 1..MaxN, props \in {"None"} \cup FuelSet :
          sweep' = [N |-> N, i |-> 0, j |-> 0,
                    data |-> [k \in 0..(N * N - 1) |-> ZeroRow],
                    writes |-> [k \in 0..(N * N - 1) |-> 0],
                    R_array |-> [k \in 0..(N - 1) |->
                                   arange_at(Norm(5, -3), Norm(1, -2), N, k)],
                    PD_array |-> [k \in 0..(N - 1) |->
                                   arange_at(Norm(11, -1), Norm(15, -1), N, k)],
                    c |-> Norm(31, -5), z |-> FromInt(2), props |-> props,
                    min_idx |-> -1, min_mass |-> FZero]
    /\ pc' = "sweep_cell"
    /\ UNCHANGED <<flow, res, exc, defaults, nd, main, cls, made>>

\* line 432: Flow(R_mesh[i, j], PD_mesh[i, j], c, z, props); with
\* meshgrid's default indexing R_mesh[i, j] = R_array[j] and
\* PD_mesh[i, j] = PD_array[i].  props = None has no split().
sweep_cell ==
    /\ pc = "sweep_cell"
    /\ IF sweep.props = "None"
       THEN /\ exc' = "AttributeError"
            /\ pc' = "raised"
            /\ UNCHANGED <<flow, res, cls, made>>
       ELSE /\ flow' = NewFlow(cls, sweep.R_array[sweep.j],
                               sweep.PD_array[sweep.i], sweep.c, sweep.z,
                               sweep.props, defaults)
            /\ cls' = Flow_dict_after(cls, flow')
            /\ made' = made + 1
            /\ res' = NoRes
            /\ pc' = "constructed"
            /\ UNCHANGED exc
    /\ UNCHANGED <<sweep, defaults, nd, main>>

\* line 434 and lines 430-431: store the cell, then the next cell
save_iteration ==
    /\ pc = "modeled"
    /\ sweep.N > 0
    /\ LET idx   == save_index(sweep.i, sweep.j, sweep.N)
           err   == save_raises(flow)
           saved == [sweep EXCEPT
                       !.data[idx] = saved_row(@, flow),
                       !.writes[idx] = @ + 1]
           last  == sweep.i = sweep.N - 1 /\ sweep.j = sweep.N - 1
       IN  IF err # "none"
           THEN /\ sweep' = saved
                /\ exc' = err
                /\ pc' = "raised"
           ELSE /\ sweep' = [saved EXCEPT
                               !.i = IF sweep.j = sweep.N - 1
                                     THEN sweep.i + 1 ELSE sweep.i,
                               !.j = IF sweep.j = sweep.N - 1
                                     THEN 0 ELSE sweep.j + 1]
                /\ exc' = exc
                /\ pc' = IF last THEN "sweep_done" ELSE "sweep_cell"
    /\ UNCHANGED <<flow, res, defaults, nd, main, cls, made>>


(***************************************************************************)
(* Calls of pipeflow_nd and pipeflow_turbulent on (Re, Pr, LD, relrough)   *)
(***************************************************************************)
\* Reynolds numbers on both sides of, on, and between the two thresholds
ReSet == {1000, 2299, 2300, 2301, 2650, 2999, 3000, 3001, 5000}

PrSet == {Norm(5, -2), Norm(3, -1), Norm(75, -2)}

LDSet == {FromInt(15), FromInt(200)}

RelroughSet == {Norm(75, -6), Norm(5, -6)}

\* lines 64-88
pipeflow_nd_call ==
    /\ pc = "nd"
    /\ ~nd.called
    /\ nd' = [nd EXCEPT
                !.called = TRUE,
                !.out = pipeflow_nd(FromInt(nd.Re), nd.Pr, nd.LD,
                                    nd.relrough)]
    /\ UNCHANGED <<pc, flow, res, sweep, exc, defaults, main, cls, made>>

\* lines 11-45, called on its own with the same arguments
pipeflow_turbulent_call ==
    /\ pc = "nd"
    /\ ~nd.turb_called
    /\ nd' = [nd EXCEPT
                !.turb_called = TRUE,
                !.turb = pipeflow_turbulent(FromInt(nd.Re), nd.Pr, nd.LD,
                                            nd.relrough)]
    /\ UNCHANGED <<pc, flow, res, sweep, exc, defaults, main, cls, made>>

(***************************************************************************)
(* One call of get_min_mass() on a result table                            *)
(***************************************************************************)
\* the masses a row may hold
MassSet == {Norm(4440, -1), Norm(5120, -1), Norm(7, 2)}

\* the data array of a sweep of resolution N whose k-th row has mass ms[k]
table_of(N, ms) == [k \in 0..(N * N - 1) |-> [ZeroRow EXCEPT !.mass = ms[k]]]

\* lines 448-459
get_min_mass_call ==
    /\ pc = "table"
    /\ \E idx \in {get_min_mass(sweep.data, sweep.N)} :
          sweep' = [sweep EXCEPT !.min_idx = idx,
                                 !.min_mass = sweep.data[idx].mass]
    /\ pc' = "min_found"
    /\ UNCHANGED <<flow, res, exc, defaults, nd, main, cls, made>>

(***************************************************************************)
(* thermal_mass_opt.py run as a script.  main.printed is what the run has  *)
(* written to the terminal; main.exit_status is -1 while the process runs. *)
(* ht_functions.py defines no flow_calc, so the import at line 15 raises   *)
(* ImportError; main.flow_calc tells whether the ht_functions on the path  *)
(* provides the name, and the run past line 15 is followed for the case    *)
(* that it does.                                                           *)
(***************************************************************************)
\* parameters of ParametricSweep.__init__ after self
ParametricSweep_params == 1

\* arguments of the call ParametricSweep(D_mesh, PD_mesh, N, AR_select)
sweep_configs_ctor_args == 4

\* the message of lines 89-90
PitchError ==
    "Error: Min fuel pitch must be greater than max coolant channeldiameter! Set min PD > 1!"

\* what the interpreter prints for an exception nothing catches
Traceback(e) == "Traceback (most recent call last): " \o e

\* an uncaught exception ends the process with status 1
uncaught(m, e) ==
    [m EXCEPT !.pc = "exited", !.exc = e, !.exit_status = 1,
              !.printed = Append(@, Traceback(e))]

\* variant of the test of line 88 that lets a ratio of exactly 1 through
pd_rejected_strict(pd_lower) == FLt(pd_lower, FOne)

\* the test of line 88
pd_rejected(pd_lower) == FLe(pd_lower, FOne)

\* sys.exit() with no argument raises SystemExit(None): status 0
sys_exit(m) == [m EXCEPT !.pc = "exited", !.exit_status = 0]

\* lines 11-16, then lines 73-86: the arguments are already typed values
main_import ==
    /\ pc = "script"
    /\ main.pc = "start"
    /\ main' = IF main.flow_calc THEN [main EXCEPT !.pc = "parsed"]
               ELSE uncaught(main, "ImportError")
    /\ UNCHANGED <<pc, flow, res, sweep, exc, defaults, nd, cls, made>>

\* lines 88-91
main_check ==
    /\ pc = "script"
    /\ main.pc = "parsed"
    /\ main' = IF pd_rejected(main.pd_lower)
               THEN sys_exit([main EXCEPT !.printed = Append(@, PitchError)])
               ELSE [main EXCEPT !.pc = "sweep_configs"]
    /\ UNCHANGED <<pc, flow, res, sweep, exc, defaults, nd, cls, made>>

\* lines 93-96 and sweep_configs, lines 43-53: N = 0 divides by zero at
\* line 43; otherwise the constructor call of line 53 raises TypeError, so
\* the loops of lines 55-59 are not entered
sweep_configs ==
    /\ pc = "script"
    /\ main.pc = "sweep_configs"
    /\ main' = IF main.steps = 0
               THEN uncaught([main EXCEPT !.sweep_called = TRUE],
                             "ZeroDivisionError")
               ELSE IF sweep_configs_ctor_args # ParametricSweep_params
               THEN uncaught([main EXCEPT !.sweep_called = TRUE], "TypeError")
               ELSE [main EXCEPT !.sweep_called = TRUE, !.pc = "sweeping"]
    /\ UNCHANGED <<pc, flow, res, sweep, exc, defaults, nd, cls, made>>

(***************************************************************************)
(* Specifications                                                          *)
(***************************************************************************)
Init ==
    /\ pc = "idle"
    /\ flow = NoFlow
    /\ res = NoRes
    /\ sweep = NoSweep
    /\ exc = "none"
    /\ defaults \in FlowPropsSet
    /\ cls = FlowClass
    /\ made = 0
    /\ nd = NoCall
    /\ main = NoMain

Next ==
    \/ Flow_init
    \/ objective_call
    \/ find_n_channels_return
    \/ adjust_dp_enter
    \/ adjust_dp_test
    \/ adjust_dp_body
    \/ mass_step
    \/ sweep_start
    \/ sweep_cell
    \/ save_iteration

\* the library: one Flow solved by oned_flow_modeling, or one sweep
Spec == Init /\ [][Next]_vars

\* a sequential program takes its next step whenever it has one
LiveSpec == Init /\ [][Next]_vars /\ WF_vars(Next)

InitNd ==
    /\ pc = "nd"
    /\ flow = NoFlow
    /\ res = NoRes
    /\ sweep = NoSweep
    /\ exc = "none"
    /\ defaults \in FlowPropsSet
    /\ cls = FlowClass
    /\ made = 0
    /\ \E Re \in ReSet, Pr \in PrSet, LD \in LDSet, relrough \in RelroughSet :
          nd = [NoCall EXCEPT !.Re = Re, !.Pr = Pr, !.LD = LD,
                              !.relrough = relrough]
    /\ main = NoMain

NextNd ==
    \/ pipeflow_nd_call
    \/ pipeflow_turbulent_call

\* pipeflow_nd and pipeflow_turbulent applied to drawn arguments
SpecNd == InitNd /\ [][NextNd]_vars

InitMin ==
    /\ pc = "table"
    /\ flow = NoFlow
    /\ res = NoRes
    /\ \E N \in 1..MaxN :
          \E ms \in [0..(N * N - 1) -> MassSet] :
             sweep = [NoSweep EXCEPT !.N = N, !.data = table_of(N, ms)]
    /\ exc = "none"
    /\ defaults \in FlowPropsSet
    /\ cls = FlowClass
    /\ made = 0
    /\ nd = NoCall
    /\ main = NoMain

NextMin == get_min_mass_call

\* get_min_mass applied to drawn tables
SpecMin == InitMin /\ [][NextMin]_vars

InitMain ==
    /\ pc = "script"
    /\ flow = NoFlow
    /\ res = NoRes
    /\ sweep = NoSweep
    /\ exc = "none"
    /\ defaults \in FlowPropsSet
    /\ cls = FlowClass
    /\ made = 0
    /\ nd = NoCall
    /\ \E fc \in BOOLEAN,
          pd_lower \in {Norm(9, -1), FOne, Norm(11, -1), Norm(12, -1)},
          pd_upper \in {Norm(15, -1), FromInt(2)},
          d_upper \in {Norm(2, -2), Norm(3, -2)},
          steps \in 0..MaxSteps :
          main = [NoMain EXCEPT !.pc = "start", !.flow_calc = fc,
                                !.d_lower = Norm(1, -2),
                                !.d_upper = d_upper,
                                !.pd_lower = pd_lower,
                                !.pd_upper = pd_upper,
                                !.steps = steps]

NextMain ==
    \/ main_import
    \/ main_check
    \/ sweep_configs

\* the script run on drawn command lines
SpecMain == InitMain /\ [][NextMain]_vars


(***************************************************************************)
(* Properties                                                              *)
(***************************************************************************)
\* C1: whenever Flow.adjust_dp has returned, the pressure drop dp last
\* computed by calc_dp is less than or equal to fps.dp_limit.
C1_AdjustDpPostcondition ==
    pc \in {"adjust_done", "modeled"} => FLe(flow.dp, flow.fps.dp_limit)

\* adjust_dp has returned under the tight limit, with a pressure drop
\* that calc_dp computed
C1_Witness ==
    /\ pc = "adjust_done"
    /\ flow.fps.dp_limit = FromInt(2)
    /\ "dp" \in flow.keys
    /\ flow.dp.m > 0

\* C2: Flow.adjust_dp always terminates: once adjust_dp is entered, its
\* correction loop eventually exits and adjust_dp returns.
C2_AdjustDpTerminates == (pc = "adjust_dp") ~> (pc = "adjust_done")

\* a power no fuel fraction in (0.01, 1) can generate
UnreachablePower == Norm(1, 12)

\* C3: whenever find_n_channels returns normally, gen_Q differs from
\* Q_therm by less than the configured tolerance (a solve that cannot
\* reach the tolerance does not return normally); stated for the solves
\* whose target is UnreachablePower.
C3_ReturnsOnlyConverged ==
    (pc = "adjust_dp" /\ flow.Q_therm = UnreachablePower)
        => FLt(FAbs(FSub(flow.gen_Q, flow.Q_therm)), xatol)

\* C4: after sweep_geometric_configs has ended for resolution N, each of
\* the N*N rows has been written exactly once, none is left at its zero
\* initial value, and each carries the (r, pd) coordinate of its grid cell.
C4_TableComplete ==
    (pc \in {"sweep_done", "raised"} /\ sweep.N > 0)
        => \A i, j \in 0..(sweep.N - 1) :
              LET k == save_index(i, j, sweep.N)
              IN  /\ sweep.writes[k] = 1
                  /\ sweep.data[k].mass # FZero
                  /\ sweep.data[k].r = sweep.R_array[j]
                  /\ sweep.data[k].pd = sweep.PD_array[i]

\* C5, with the table order of save_iteration: get_min_mass returns the index of a row whose mass is the
\* minimum over the whole table, and among rows that tie for the minimum
\* it returns the one with the smallest table index, where the row of
\* cell (i, j) has table index i + j * N.
C5_MinMassFirstInTableOrder ==
    pc = "min_found"
        => /\ sweep.min_idx \in 0..(sweep.N * sweep.N - 1)
           /\ sweep.min_mass = sweep.data[sweep.min_idx].mass
           /\ \A i, j \in 0..(sweep.N - 1) :
                 LET k == i + j * sweep.N
                 IN  /\ FLe(sweep.min_mass, sweep.data[k].mass)
                     /\ k < sweep.min_idx
                           => FLt(sweep.min_mass, sweep.data[k].mass)

\* two rows tie for the minimum, at table indices 1 and 2, and
\* get_min_mass has returned index 1
C5_Witness ==
    /\ pc = "min_found"
    /\ sweep.N = 2
    /\ sweep.data[1].mass = sweep.data[2].mass
    /\ FLt(sweep.data[1].mass, sweep.data[0].mass)
    /\ FLt(sweep.data[1].mass, sweep.data[3].mass)
    /\ sweep.min_idx = 1

\* C5 as stated: among rows that tie for the minimum get_min_mass returns
\* the one whose cell comes first in the row-major traversal of the grid
\* (cell (i, j) before cell (i, j+1), all of row i before row i+1).
C5_FirstInRowMajorTraversal ==
    pc = "min_found"
        => \A i, j, i2, j2 \in 0..(sweep.N - 1) :
              (/\ save_index(i2, j2, sweep.N) = sweep.min_idx
               /\ (i < i2 \/ (i = i2 /\ j < j2)))
                  => FLt(sweep.min_mass,
                         sweep.data[save_index(i, j, sweep.N)].mass)

C7_NoSweepWhenRejected ==
    FLe(main.pd_lower, FOne)
        => (~main.sweep_called /\ main.flows = 0 /\ main.masses = 0)

\* the test of line 88 has rejected a pitch ratio of exactly 1 and the
\* run has ended
C7_Witness ==
    /\ main.pc = "exited"
    /\ main.pd_lower = FOne
    /\ main.printed = <<PitchError>>

\* C8: a sweep with resolution N over the supplied ranges runs to
\* completion and produces N*N mass values.
C8_SweepCompletes ==
    (main.pc = "exited" /\ main.sweep_called)
        => (main.exc = "none" /\ main.masses = main.steps * main.steps)

\* C9: pipeflow_nd returns the turbulent correlation's values when
\* Re > 3000, the laminar correlation's when Re < 2300, and otherwise, for
\* the friction factor and each Nusselt number separately,
\* lam + (Re - 2300)/700 * (turb - lam) with lam from pipeflow_laminar at
\* Re = 2300 and turb from pipeflow_turbulent at Re = 3000.
C9_RegimeSelection ==
    nd.called
        => LET Re   == FromInt(nd.Re)
               here == pipeflow_turbulent(Re, nd.Pr, nd.LD, nd.relrough)
               lam  == pipeflow_laminar(FromInt(2300), nd.Pr, nd.LD,
                                        nd.relrough)
               turb == pipeflow_turbulent(FromInt(3000), nd.Pr, nd.LD,
                                          nd.relrough)
               w    == FDiv(FSub(Re, FromInt(2300)), FromInt(700))
           IN  /\ nd.Re > 3000
                     => nd.out = [Nusselt_T |-> here.Nusselt_L,
                                  Nusselt_H |-> here.Nusselt_L,
                                  f |-> here.f]
               /\ nd.Re < 2300
                     => nd.out = pipeflow_laminar(Re, nd.Pr, nd.LD,
                                                  nd.relrough)
               /\ (nd.Re >= 2300 /\ nd.Re <= 3000)
                     => nd.out =
                          [Nusselt_T |->
                              FAdd(lam.Nusselt_T,
                                   FMul(w, FSub(turb.Nusselt_L,
                                                lam.Nusselt_T))),
                           Nusselt_H |->
                              FAdd(lam.Nusselt_H,
                                   FMul(w, FSub(turb.Nusselt_L,
                                                lam.Nusselt_H))),
                           f |-> FAdd(lam.f, FMul(w, FSub(turb.f, lam.f)))]

\* pipeflow_nd has returned for a Reynolds number inside the transition
\* range, with values that differ from the laminar ones
C9_Witness ==
    /\ nd.called
    /\ nd.Re = 2650
    /\ nd.out # pipeflow_laminar(FromInt(2300), nd.Pr, nd.LD, nd.relrough)

\* C10: at Re = 2300 pipeflow_nd returns exactly the friction factor and
\* the two Nusselt numbers of pipeflow_laminar at Re = 2300, and for every
\* Re below 2300 it returns pipeflow_laminar's three values unchanged.
C10_LaminarJoin ==
    (nd.called /\ nd.Re <= 2300)
        => nd.out = pipeflow_laminar(FromInt(nd.Re), nd.Pr, nd.LD,
                                     nd.relrough)

\* pipeflow_nd has returned from its transition branch at Re = 2300
C10_Witness ==
    /\ nd.called
    /\ nd.Re = 2300
    /\ nd.out.f.m > 0

\* C11: for every Flow that has gone through oned_flow_modeling,
\* save_iteration succeeds and stores in that cell's row the coordinates
\* (r, pd) of the cell and the value the solve left on the Flow for each
\* metric of savedata that the Flow carries.
C11_SaveStoresRow ==
    [][(pc = "modeled" /\ sweep.N > 0)
          => LET row == sweep'.data[save_index(sweep.i, sweep.j, sweep.N)]
             IN  /\ exc' = "none"
                 /\ row.r = flow.r_channel
                 /\ row.pd = sweep.PD_array[sweep.i]
                 /\ row.mass = flow.mass
                 /\ row.N_channels = flow.N_channels
                 /\ row.dp = flow.dp
                 /\ row.h_bar = flow.h_bar
                 /\ row.v = flow.v
                 /\ row.AR = flow.AR]_vars


\* C12: after every step of the solve pipeline on a Flow, N_channels
\* equals A_flow / (pi * r_channel^2), and radius_cond, XS_A_cond, vol_fuel
\* and vol_cool are the values set_geom derives from the current fuel_frac,
\* core_r and that same N_channels.
C12_GeometryTogether ==
    (flow # NoFlow /\ pc # "adjust_body")
        => /\ flow.N_channels =
                  FDiv(flow.A_flow,
                       FMul(FMul(flow.r_channel, flow.r_channel), Pi))
           /\ flow.A_flow =
                  FMul(FMul(FMul(flow.core_r, flow.core_r), Pi),
                       FSub(FOne, flow.fuel_frac))
           /\ flow.A_fuel =
                  FMul(FMul(FMul(flow.core_r, flow.core_r), Pi),
                       flow.fuel_frac)
           /\ flow.radius_cond =
                  FDiv(FSqrt(FDiv(flow.A_fuel, flow.N_channels)), FromInt(2))
           /\ flow.XS_A_cond =
                  FMul(FMul(FMul(FMul(Pi, flow.r_channel), flow.L),
                            FromInt(2)), flow.N_channels)
           /\ flow.vol_fuel = FMul(flow.A_fuel, flow.L)
           /\ flow.vol_cool = FMul(flow.A_flow, flow.L)


\* C13: no state carries over from one Flow to the next: solving a Flow
\* changes neither the attributes of the class Flow nor the default
\* FlowProperties object, a Flow just constructed is the one its own
\* constructor arguments give on the untouched class, and the fuel_frac,
\* core_r, N_channels, dp and mass of a solved Flow are those of the
\* pipeline run on its own arguments alone, whatever was solved before.
C13_NoCarryOver ==
    /\ [](cls = FlowClass)
    /\ [][defaults' = defaults]_vars
    /\ [](pc = "constructed"
            => /\ res = NoRes
               /\ flow = NewFlow(FlowClass, flow.r_channel, flow.c, flow.AR,
                                 flow.Q_therm, flow.fuel, flow.fps))
    /\ [](pc = "modeled"
            => LET own == calc_reactor_mass(calc_dp(compute_Q_from_guess(
                              NewFlow(FlowClass, flow.r_channel, flow.c,
                                      flow.AR, flow.Q_therm, flow.fuel,
                                      flow.fps),
                              flow.fuel_frac)))
               IN  /\ flow.core_r = own.core_r
                   /\ flow.N_channels = own.N_channels
                   /\ flow.dp = own.dp
                   /\ flow.mass = own.mass)

\* a second Flow has been constructed and solved after a first one
C13_Witness == made = 2 /\ pc = "modeled"


C15_CountMeetsLimit ==
    [][pc = "adjust_body"
          => /\ flow'.N_channels = FromInt(get_dp_constrained_Nchannels(flow))
             /\ FLe(flow'.dp, flow'.fps.dp_limit)]_vars


\* C16: pipeflow_turbulent applies the developing-flow correction to the
\* friction factor only: the friction factor it returns is the fully
\* developed one times (1 + (1/LD)^0.7), and the Nusselt number it returns
\* is the value of the correlation itself, not its product with that
\* factor, for every Re, Pr, LD and relative roughness.
C16_CorrectionOnFrictionOnly ==
    nd.turb_called
        => LET f_fd   == turbulent_f_fd(FromInt(nd.Re), nd.relrough)
               Nu     == turbulent_Nusselt(FromInt(nd.Re), nd.Pr, f_fd)
               factor == FAdd(FOne, FPow(FDiv(FOne, nd.LD), 7000))
           IN  /\ FGt(factor, FOne)
               /\ nd.turb.f = FMul(f_fd, factor)
               /\ nd.turb.Nusselt_L = Nu
               /\ Nu # FZero => nd.turb.Nusselt_L # FMul(Nu, factor)

\* pipeflow_turbulent has returned for a rough pipe at a low Prandtl
\* number, with a Nusselt number the correction would have changed
C16_Witness ==
    /\ nd.turb_called
    /\ nd.Re = 5000
    /\ FGt(nd.relrough, Norm(1, -5))
    /\ FLt(nd.Pr, Norm(5, -1))
    /\ nd.turb.Nusselt_L.m > 0
    /\ nd.turb.f.m > 0


\* C17: when find_n_channels returns, the state left in the Flow is the
\* state of the trial the minimizer reports as its best point: its
\* fuel_frac is the best x and its squared error is the smallest one seen.
C17_LeftAtBestTrial ==
    pc = "adjust_dp"
        => /\ flow.fuel_frac = res.x
           /\ LET d == FSub(flow.gen_Q, flow.Q_therm)
              IN  FMul(d, d) = res.fun

=============================================================================
